---- MODULE Spec2Model ----
(***************************************************************************)
(* Unit normalisation of homeassistant/components/weather/__init__.py:     *)
(* the per-entity unit-override state machine                              *)
(* (WeatherEntity.async_registry_entry_updated), the unit accessors and    *)
(* WeatherEntity.state_attributes.                                         *)
(*                                                                         *)
(* Numbers are decimal fixed point, in hundredths (20.26 is 2026).         *)
(* Python's None is the value NoneVal (readings) or NoneUnit (units).      *)
(***************************************************************************)
EXTENDS Integers, Sequences, FiniteSets, TLC

VARIABLES
    hass_units,        \* hass.config.units: [is_metric, temperature_unit]
    registry_entry,    \* self.registry_entry: [present, options]
    weather_option,    \* the five self._weather_option_*_uom
    native_unit,       \* the five self._attr_native_*_unit
    attr_precision,    \* self._attr_precision as str() shows it; <<>>: not declared
    snapshot,          \* the native current-conditions readings
    attr_forecast,     \* self._attr_forecast: [present, entries]
    added,             \* async_internal_added_to_hass has run
    last,              \* the handler that ran last
    result             \* what the last state_attributes call returned or raised

vars == << hass_units, registry_entry, weather_option, native_unit, attr_precision,
           snapshot, attr_forecast, added, last, result >>

-----------------------------------------------------------------------------
(* Unit symbols (homeassistant.const) and the option keys.                 *)

TEMP_CELSIUS == "C"
TEMP_FAHRENHEIT == "F"
PRESSURE_HPA == "hPa"
PRESSURE_MBAR == "mbar"
PRESSURE_INHG == "inHg"
PRESSURE_MMHG == "mmHg"
SPEED_METERS_PER_SECOND == "m/s"
SPEED_KILOMETERS_PER_HOUR == "km/h"
SPEED_MILES_PER_HOUR == "mph"
LENGTH_MILLIMETERS == "mm"
LENGTH_INCHES == "in"
LENGTH_KILOMETERS == "km"
LENGTH_MILES == "mi"

CONF_PRECIPITATION_UOM == "precipitation_unit_of_measurement"
CONF_PRESSURE_UOM == "pressure_unit_of_measurement"
CONF_TEMPERATURE_UOM == "temperature_unit_of_measurement"
CONF_VISIBILITY_UOM == "visibility_unit_of_measurement"
CONF_WIND_SPEED_UOM == "wind_speed_unit_of_measurement"

Kinds == { CONF_TEMPERATURE_UOM, CONF_PRESSURE_UOM, CONF_PRECIPITATION_UOM,
           CONF_WIND_SPEED_UOM, CONF_VISIBILITY_UOM }

ROUNDING_PRECISION == 2

VALID_UNITS_PRESSURE == { PRESSURE_HPA, PRESSURE_MBAR, PRESSURE_INHG, PRESSURE_MMHG }
VALID_UNITS_TEMPERATURE == { TEMP_CELSIUS, TEMP_FAHRENHEIT }
VALID_UNITS_PRECIPITATION == { LENGTH_MILLIMETERS, LENGTH_INCHES }
VALID_UNITS_VISIBILITY == { LENGTH_KILOMETERS, LENGTH_MILES }
VALID_UNITS_SPEED ==
    { SPEED_METERS_PER_SECOND, SPEED_KILOMETERS_PER_HOUR, SPEED_MILES_PER_HOUR }

VALID_UNITS(kind) ==
    CASE kind = CONF_PRESSURE_UOM -> VALID_UNITS_PRESSURE
      [] kind = CONF_TEMPERATURE_UOM -> VALID_UNITS_TEMPERATURE
      [] kind = CONF_VISIBILITY_UOM -> VALID_UNITS_VISIBILITY
      [] kind = CONF_PRECIPITATION_UOM -> VALID_UNITS_PRECIPITATION
      [] kind = CONF_WIND_SPEED_UOM -> VALID_UNITS_SPEED

-----------------------------------------------------------------------------
(* Python values.                                                          *)

NoneUnit == "None"

NoneVal == [t |-> "None", n |-> 0, s |-> ""]
Num(x) == [t |-> "float", n |-> x, s |-> ""]
Str(x) == [t |-> "str", n |-> 0, s |-> x]

\* bool(v): None, 0 and "" are false.
Truthy(v) ==
    \/ v.t = "float" /\ v.n # 0
    \/ v.t = "str" /\ v.s # ""

EmptyMap == [k \in {} |-> NoneVal]

\* dict.get(key): None when the key is missing.
Get(map, key) == IF key \in DOMAIN map THEN map[key] ELSE NoneVal

-----------------------------------------------------------------------------
(* homeassistant.util.{temperature,pressure,speed,distance}.convert.       *)
(* Each unit is a rational multiple Num/Den of the kind's base unit        *)
(* (Pa, m/s, mm); temperatures are affine.                                  *)

RECURSIVE Gcd(_, _)
Gcd(a, b) == IF b = 0 THEN a ELSE Gcd(b, a % b)

UnitNum(u) ==
    CASE u = PRESSURE_HPA -> 100
      [] u = PRESSURE_MBAR -> 100
      [] u = PRESSURE_INHG -> 33864
      [] u = PRESSURE_MMHG -> 13332
      [] u = SPEED_METERS_PER_SECOND -> 1
      [] u = SPEED_KILOMETERS_PER_HOUR -> 5
      [] u = SPEED_MILES_PER_HOUR -> 1397
      [] u = LENGTH_MILLIMETERS -> 1
      [] u = LENGTH_INCHES -> 127
      [] u = LENGTH_KILOMETERS -> 1000000
      [] u = LENGTH_MILES -> 1609344
      [] OTHER -> 1

UnitDen(u) ==
    CASE u = PRESSURE_INHG -> 10
      [] u = PRESSURE_MMHG -> 100
      [] u = SPEED_KILOMETERS_PER_HOUR -> 18
      [] u = SPEED_MILES_PER_HOUR -> 3125
      [] u = LENGTH_INCHES -> 5
      [] OTHER -> 1

\* The exact quotient num/den of converting the number x (hundredths; 32 degrees
\* are 3200).
Ratio(kind, x, from_unit, to_unit) ==
    IF from_unit = to_unit THEN [num |-> x, den |-> 1]
    ELSE IF kind = CONF_TEMPERATURE_UOM
    THEN IF from_unit = TEMP_CELSIUS
         THEN [num |-> x * 9 + 3200 * 5, den |-> 5]
         ELSE [num |-> (x - 3200) * 5, den |-> 9]
    ELSE LET p == UnitNum(from_unit) * UnitDen(to_unit)
             q == UnitDen(from_unit) * UnitNum(to_unit)
             g == Gcd(p, q)
         IN  [num |-> x * (p \div g), den |-> q \div g]

\* convert(value, from_unit, to_unit): a unit outside the kind's units raises
\* ValueError before the value is looked at; arithmetic on a value that is not a
\* number raises TypeError.
Convert(kind, value, from_unit, to_unit) ==
    IF from_unit \notin VALID_UNITS(kind) \/ to_unit \notin VALID_UNITS(kind)
    THEN [exc |-> "ValueError", num |-> 0, den |-> 1]
    ELSE IF value.t # "float"
    THEN [exc |-> "TypeError", num |-> 0, den |-> 1]
    ELSE LET r == Ratio(kind, value.n, from_unit, to_unit)
         IN  [exc |-> "", num |-> r.num, den |-> r.den]

Pow10(d) == CASE d = 0 -> 1 [] d = 1 -> 10 [] d = 2 -> 100 [] OTHER -> 1

\* round(num/den, digits), ties to even as Python rounds; the result in hundredths.
Round(num, den, digits) ==
    LET step == den * Pow10(2 - digits)
        q == num \div step
        r == num - q * step
        up == \/ 2 * r > step
              \/ 2 * r = step /\ q % 2 = 1
    IN  (IF up THEN q + 1 ELSE q) * Pow10(2 - digits)

-----------------------------------------------------------------------------
(* The unit accessors of WeatherEntity.                                    *)

\* native_temperature_unit, native_pressure_unit, ...: the declared attribute,
\* None when the entity declares none.
NativeUnit(kind) == native_unit[kind]

temperature_unit ==
    IF weather_option[CONF_TEMPERATURE_UOM] # NoneUnit
    THEN weather_option[CONF_TEMPERATURE_UOM]
    ELSE hass_units.temperature_unit

pressure_unit ==
    IF weather_option[CONF_PRESSURE_UOM] # NoneUnit
    THEN weather_option[CONF_PRESSURE_UOM]
    ELSE IF hass_units.is_metric THEN PRESSURE_HPA ELSE PRESSURE_INHG

\* wind_speed_unit with the defaults of the two unit systems exchanged.
wind_speed_unit_swapped ==
    IF weather_option["wind_speed_unit_of_measurement"] # NoneUnit
    THEN weather_option["wind_speed_unit_of_measurement"]
    ELSE IF hass_units.is_metric THEN SPEED_MILES_PER_HOUR ELSE SPEED_METERS_PER_SECOND

wind_speed_unit ==
    IF weather_option[CONF_WIND_SPEED_UOM] # NoneUnit
    THEN weather_option[CONF_WIND_SPEED_UOM]
    ELSE IF hass_units.is_metric THEN SPEED_METERS_PER_SECOND ELSE SPEED_MILES_PER_HOUR

visibility_unit ==
    IF weather_option[CONF_VISIBILITY_UOM] # NoneUnit
    THEN weather_option[CONF_VISIBILITY_UOM]
    ELSE IF hass_units.is_metric THEN LENGTH_KILOMETERS ELSE LENGTH_MILES

precipitation_unit ==
    IF weather_option[CONF_PRECIPITATION_UOM] # NoneUnit
    THEN weather_option[CONF_PRECIPITATION_UOM]
    ELSE IF hass_units.is_metric THEN LENGTH_MILLIMETERS ELSE LENGTH_INCHES

\* The accessor of each kind, as state_attributes reads it.
TargetUnit(kind) ==
    CASE kind = CONF_TEMPERATURE_UOM -> temperature_unit
      [] kind = CONF_PRESSURE_UOM -> pressure_unit
      [] kind = CONF_WIND_SPEED_UOM -> wind_speed_unit
      [] kind = CONF_VISIBILITY_UOM -> visibility_unit
      [] kind = CONF_PRECIPITATION_UOM -> precipitation_unit

PRECISION_TENTHS == << "0", ".", "1" >>
PRECISION_WHOLE == << "1" >>
PRECISION_HALVES == << "0", ".", "5" >>

\* precision deciding by the native temperature unit instead of the target.
precision_by_native ==
    IF attr_precision # << >> THEN attr_precision
    ELSE IF native_unit["temperature_unit_of_measurement"] = TEMP_CELSIUS
    THEN PRECISION_TENTHS ELSE PRECISION_WHOLE

\* precision: the declared _attr_precision, else by the temperature unit.
precision ==
    IF attr_precision # << >> THEN attr_precision
    ELSE IF temperature_unit = TEMP_CELSIUS THEN PRECISION_TENTHS ELSE PRECISION_WHOLE

\* len(precision_str) - precision_str.index(".") - 1 if "." in precision_str else 0
PrecisionDigits(precision_str) ==
    IF \E i \in 1..Len(precision_str) : precision_str[i] = "."
    THEN LET i == CHOOSE i \in 1..Len(precision_str) :
                     /\ precision_str[i] = "."
                     /\ \A j \in 1..(i - 1) : precision_str[j] # "."
         IN  Len(precision_str) - (i - 1) - 1
    ELSE 0

-----------------------------------------------------------------------------
(* async_registry_entry_updated.                                           *)

\* CustomUnit without the check of the entity's native unit.
CustomUnitAnyNative(weather_options, kind) ==
    IF /\ weather_options[kind] # NoneUnit
       /\ weather_options[kind] \in VALID_UNITS(kind)
    THEN weather_options[kind]
    ELSE NoneUnit

\* One block of the handler: the unit the options carry for the kind, when it is
\* truthy, valid for the kind, and the native unit is valid for the kind.
CustomUnit(weather_options, kind) ==
    IF /\ weather_options[kind] # NoneUnit
       /\ weather_options[kind] \in VALID_UNITS(kind)
       /\ NativeUnit(kind) \in VALID_UNITS(kind)
    THEN weather_options[kind]
    ELSE NoneUnit

\* RegistryEntryUpdated without the reset of the five overrides: a kind whose
\* block does not accept keeps the override it had.
RegistryEntryUpdatedNoReset(weather_options) ==
    [k \in Kinds |->
        IF weather_options[k] # NoneUnit
           /\ weather_options[k] \in VALID_UNITS(k)
           /\ native_unit[k] \in VALID_UNITS(k)
        THEN weather_options[k]
        ELSE weather_option[k]]

\* The five overrides after the handler has run: each is reset to None, then
\* set by its block when the options are not empty.
RegistryEntryUpdated(weather_options) ==
    IF \E k \in Kinds : weather_options[k] # NoneUnit
    THEN [k \in Kinds |-> CustomUnit(weather_options, k)]
    ELSE [k \in Kinds |-> NoneUnit]

-----------------------------------------------------------------------------
(* state_attributes.                                                       *)

ATTR_FORECAST_CONDITION == "condition"
ATTR_FORECAST_PRECIPITATION == "precipitation"
ATTR_FORECAST_PRECIPITATION_PROBABILITY == "precipitation_probability"
ATTR_FORECAST_PRESSURE == "pressure"
ATTR_FORECAST_TEMP == "temperature"
ATTR_FORECAST_TEMP_LOW == "templow"
ATTR_FORECAST_TIME == "datetime"
ATTR_FORECAST_WIND_BEARING == "wind_bearing"
ATTR_FORECAST_WIND_SPEED == "wind_speed"
ATTR_WEATHER_HUMIDITY == "humidity"
ATTR_WEATHER_OZONE == "ozone"
ATTR_WEATHER_PRESSURE == "pressure"
ATTR_WEATHER_PRESSURE_UNIT == "pressure_unit"
ATTR_WEATHER_TEMPERATURE == "temperature"
ATTR_WEATHER_TEMPERATURE_UNIT == "temperature_unit"
ATTR_WEATHER_VISIBILITY == "visibility"
ATTR_WEATHER_VISIBILITY_UNIT == "visibility_unit"
ATTR_WEATHER_WIND_BEARING == "wind_bearing"
ATTR_WEATHER_WIND_SPEED == "wind_speed"
ATTR_WEATHER_WIND_SPEED_UNIT == "wind_speed_unit"
ATTR_WEATHER_PRECIPITATION_UNIT == "precipitation_unit"

\* One call of UNIT_CONVERSIONS[kind], as the ghost record of the calls made.
Call(kind, value) ==
    [kind |-> kind, value |-> value, from_unit |-> NativeUnit(kind),
     to_unit |-> TargetUnit(kind)]

\* Reading without the float(x) line: the value goes to convert as it is.
ReadingNoFloat(kind, key, unit_key, value, digits) ==
    IF value.t = "None" THEN [exc |-> "", data |-> EmptyMap, calls |-> {}]
    ELSE LET c == Convert(kind, value, NativeUnit(kind), TargetUnit(kind))
         IN  IF c.exc = "ValueError"
             THEN [exc |-> "", data |-> EmptyMap, calls |-> {Call(kind, value)}]
             ELSE IF c.exc # ""
             THEN [exc |-> c.exc, data |-> EmptyMap, calls |-> {Call(kind, value)}]
             ELSE [exc |-> "",
                   data |-> (key :> Num(Round(c.num, c.den, digits)))
                            @@ (unit_key :> Str(TargetUnit(kind))),
                   calls |-> {Call(kind, value)}]

\* Reading with the unit assigned after the with block: the unit key is set
\* whether or not the conversion succeeded.
ReadingUnitOutside(kind, key, unit_key, value, digits) ==
    IF value.t = "None" THEN [exc |-> "", data |-> EmptyMap, calls |-> {}]
    ELSE IF value.t = "str"
    THEN [exc |-> "", data |-> unit_key :> Str(TargetUnit(kind)), calls |-> {}]
    ELSE LET c == Convert(kind, value, NativeUnit(kind), TargetUnit(kind))
         IN  IF c.exc # ""
             THEN [exc |-> "", data |-> unit_key :> Str(TargetUnit(kind)),
                   calls |-> {Call(kind, value)}]
             ELSE [exc |-> "",
                   data |-> (key :> Num(Round(c.num, c.den, digits)))
                            @@ (unit_key :> Str(TargetUnit(kind))),
                   calls |-> {Call(kind, value)}]

\* A current-conditions reading of a convertible kind:
\*   if (x := self.native_x) is not None:
\*       with suppress(ValueError):
\*           float(x); value = convert(x, native unit, unit)
\*           data[key] = round(value, digits); data[unit_key] = unit
\* float() of a string that is no number raises ValueError; a ValueError leaves
\* both keys out, any other exception escapes.
Reading(kind, key, unit_key, value, digits) ==
    IF value.t = "None" THEN [exc |-> "", data |-> EmptyMap, calls |-> {}]
    ELSE IF value.t = "str" THEN [exc |-> "", data |-> EmptyMap, calls |-> {}]
    ELSE LET c == Convert(kind, value, NativeUnit(kind), TargetUnit(kind))
         IN  IF c.exc = "ValueError"
             THEN [exc |-> "", data |-> EmptyMap, calls |-> {Call(kind, value)}]
             ELSE IF c.exc # ""
             THEN [exc |-> c.exc, data |-> EmptyMap, calls |-> {Call(kind, value)}]
             ELSE [exc |-> "",
                   data |-> (key :> Num(Round(c.num, c.den, digits)))
                            @@ (unit_key :> Str(TargetUnit(kind))),
                   calls |-> {Call(kind, value)}]

\* A reading emitted as it is: ozone, the wind bearing.
Plain(key, value) ==
    IF value.t = "None" THEN EmptyMap ELSE key :> value

\* round(humidity): round() of a string raises TypeError, outside any suppress.
Humidity(value) ==
    IF value.t = "None" THEN [exc |-> "", data |-> EmptyMap, calls |-> {}]
    ELSE IF value.t # "float"
    THEN [exc |-> "TypeError", data |-> EmptyMap, calls |-> {}]
    ELSE [exc |-> "", data |-> ATTR_WEATHER_HUMIDITY :> Num(Round(value.n, 1, 0)),
          calls |-> {}]

\* A forecast field converted under suppress(ValueError): a ValueError leaves the
\* field out of forecast_entry_new, any other exception escapes.
ForecastField(kind, key, value, digits) ==
    LET c == Convert(kind, value, NativeUnit(kind), TargetUnit(kind))
    IN  IF c.exc = "ValueError"
        THEN [exc |-> "", new |-> EmptyMap, calls |-> {Call(kind, value)}]
        ELSE IF c.exc # ""
        THEN [exc |-> c.exc, new |-> EmptyMap, calls |-> {Call(kind, value)}]
        ELSE [exc |-> "", new |-> key :> Num(Round(c.num, c.den, digits)),
              calls |-> {Call(kind, value)}]

\* if x := forecast_entry.get(key): the field is converted when it is truthy.
OptionalField(kind, key, forecast_entry) ==
    IF Truthy(Get(forecast_entry, key))
    THEN ForecastField(kind, key, forecast_entry[key], ROUNDING_PRECISION)
    ELSE [exc |-> "", new |-> EmptyMap, calls |-> {}]

\* The first exception raised by the steps, in their order.
FirstExc(steps) ==
    IF \E i \in 1..Len(steps) : steps[i].exc # ""
    THEN steps[CHOOSE i \in 1..Len(steps) :
                   /\ steps[i].exc # ""
                   /\ \A j \in 1..(i - 1) : steps[j].exc = ""].exc
    ELSE ""

\* The steps that ran: all of them, or those up to the first that raised.
LastStep(steps) ==
    IF FirstExc(steps) = "" THEN Len(steps)
    ELSE CHOOSE i \in 1..Len(steps) :
             /\ steps[i].exc # ""
             /\ \A j \in 1..(i - 1) : steps[j].exc = ""

\* forecast.append({**forecast_entry, **forecast_entry_new}), unless a step
\* raised.
EntrySteps(forecast_entry, steps) ==
    [exc |-> FirstExc(steps),
     entry |-> steps[1].new @@ steps[2].new @@ steps[3].new
               @@ steps[4].new @@ steps[5].new @@ forecast_entry,
     calls |-> UNION { steps[i].calls : i \in 1..LastStep(steps) }]

\* The body of the loop over self.forecast: forecast_entry[ATTR_FORECAST_TEMP]
\* raises KeyError when the entry has no temperature.
ForecastEntry(forecast_entry, digits) ==
    IF ATTR_FORECAST_TEMP \notin DOMAIN forecast_entry
    THEN [exc |-> "KeyError", entry |-> EmptyMap, calls |-> {}]
    ELSE EntrySteps(forecast_entry,
             << ForecastField(CONF_TEMPERATURE_UOM, ATTR_FORECAST_TEMP,
                              forecast_entry[ATTR_FORECAST_TEMP], digits),
                OptionalField(CONF_TEMPERATURE_UOM, ATTR_FORECAST_TEMP_LOW,
                              forecast_entry),
                OptionalField(CONF_PRESSURE_UOM, ATTR_FORECAST_PRESSURE,
                              forecast_entry),
                OptionalField(CONF_WIND_SPEED_UOM, ATTR_FORECAST_WIND_SPEED,
                              forecast_entry),
                OptionalField(CONF_PRECIPITATION_UOM, ATTR_FORECAST_PRECIPITATION,
                              forecast_entry) >>)

\* The loop over the entries, each a step: the first exception ends it.
LoopSteps(steps) ==
    [exc |-> FirstExc(steps),
     forecast |-> IF FirstExc(steps) = ""
                  THEN [i \in 1..Len(steps) |-> steps[i].entry]
                  ELSE << >>,
     calls |-> UNION { steps[i].calls : i \in 1..LastStep(steps) }]

ForecastLoop(entries, digits) ==
    LoopSteps([i \in 1..Len(entries) |-> ForecastEntry(entries[i], digits)])

\* The map returned, from the steps of the convertible readings and the
\* humidity, the keys emitted as they are, and the loop over the forecast;
\* the first exception raised escapes.
Assemble(steps, plain, loop) ==
    IF FirstExc(steps) # ""
    THEN [called |-> TRUE, exc |-> FirstExc(steps), data |-> EmptyMap,
          has_forecast |-> FALSE, forecast |-> << >>,
          calls |-> UNION { steps[i].calls : i \in 1..LastStep(steps) }]
    ELSE IF loop.exc # ""
    THEN [called |-> TRUE, exc |-> loop.exc, data |-> EmptyMap,
          has_forecast |-> FALSE, forecast |-> << >>,
          calls |-> UNION { steps[i].calls : i \in 1..Len(steps) } \cup loop.calls]
    ELSE [called |-> TRUE, exc |-> "",
          data |-> steps[1].data @@ steps[2].data @@ steps[3].data
                   @@ steps[4].data @@ steps[5].data @@ plain,
          has_forecast |-> attr_forecast.present, forecast |-> loop.forecast,
          calls |-> UNION { steps[i].calls : i \in 1..Len(steps) } \cup loop.calls]

\* What a call of state_attributes returns for the readings: the map data (its
\* "forecast" key held apart, in forecast, present when has_forecast), or the
\* exception that escapes the call; calls is the ghost record of the conversion
\* calls made.
StateAttributesOf(readings) ==
    Assemble(
        << Reading(CONF_TEMPERATURE_UOM, ATTR_WEATHER_TEMPERATURE,
                   ATTR_WEATHER_TEMPERATURE_UNIT, readings.native_temperature,
                   PrecisionDigits(precision)),
           Humidity(readings.humidity),
           Reading(CONF_PRESSURE_UOM, ATTR_WEATHER_PRESSURE,
                   ATTR_WEATHER_PRESSURE_UNIT, readings.native_pressure,
                   ROUNDING_PRECISION),
           Reading(CONF_WIND_SPEED_UOM, ATTR_WEATHER_WIND_SPEED,
                   ATTR_WEATHER_WIND_SPEED_UNIT, readings.native_wind_speed,
                   ROUNDING_PRECISION),
           Reading(CONF_VISIBILITY_UOM, ATTR_WEATHER_VISIBILITY,
                   ATTR_WEATHER_VISIBILITY_UNIT, readings.native_visibility,
                   ROUNDING_PRECISION) >>,
        Plain(ATTR_WEATHER_OZONE, readings.ozone)
            @@ Plain(ATTR_WEATHER_WIND_BEARING, readings.wind_bearing)
            @@ (ATTR_WEATHER_PRECIPITATION_UNIT :> Str(precipitation_unit)),
        IF attr_forecast.present
        THEN ForecastLoop(attr_forecast.entries, PrecisionDigits(precision))
        ELSE [exc |-> "", forecast |-> << >>, calls |-> {}])

state_attributes == StateAttributesOf(snapshot)

NoResult ==
    [called |-> FALSE, exc |-> "", data |-> EmptyMap, has_forecast |-> FALSE,
     forecast |-> << >>, calls |-> {}]

-----------------------------------------------------------------------------
(* Bounds and the sets the inputs are drawn from.                          *)

\* The most kinds an options blob carries a unit for.
MaxOptions == 2

\* A unit that is not valid for the kind (a unit of another kind).
InvalidUnit(kind) ==
    CASE kind = CONF_TEMPERATURE_UOM -> PRESSURE_HPA
      [] kind = CONF_PRESSURE_UOM -> LENGTH_MILLIMETERS
      [] kind = CONF_PRECIPITATION_UOM -> LENGTH_KILOMETERS
      [] kind = CONF_WIND_SPEED_UOM -> LENGTH_KILOMETERS
      [] kind = CONF_VISIBILITY_UOM -> LENGTH_MILLIMETERS

OptionUnits(kind) == VALID_UNITS(kind) \cup {InvalidUnit(kind)}

NoOptions == [k \in Kinds |-> NoneUnit]

OptionKeys(options) == { k \in Kinds : options[k] # NoneUnit }

\* The native units a metric or an imperial data source declares.
MetricUnits ==
    [k \in Kinds |->
        CASE k = CONF_TEMPERATURE_UOM -> TEMP_CELSIUS
          [] k = CONF_PRESSURE_UOM -> PRESSURE_HPA
          [] k = CONF_PRECIPITATION_UOM -> LENGTH_MILLIMETERS
          [] k = CONF_WIND_SPEED_UOM -> SPEED_METERS_PER_SECOND
          [] k = CONF_VISIBILITY_UOM -> LENGTH_KILOMETERS]

ImperialUnits ==
    [k \in Kinds |->
        CASE k = CONF_TEMPERATURE_UOM -> TEMP_FAHRENHEIT
          [] k = CONF_PRESSURE_UOM -> PRESSURE_INHG
          [] k = CONF_PRECIPITATION_UOM -> LENGTH_INCHES
          [] k = CONF_WIND_SPEED_UOM -> SPEED_MILES_PER_HOUR
          [] k = CONF_VISIBILITY_UOM -> LENGTH_MILES]

HassUnits ==
    [is_metric : BOOLEAN, temperature_unit : {TEMP_CELSIUS, TEMP_FAHRENHEIT}]

NoReadings ==
    [native_temperature |-> NoneVal, humidity |-> NoneVal, ozone |-> NoneVal,
     native_pressure |-> NoneVal, wind_bearing |-> NoneVal,
     native_wind_speed |-> NoneVal, native_visibility |-> NoneVal]

NoForecast == [present |-> FALSE, entries |-> << >>]

-----------------------------------------------------------------------------
(* The operations.                                                         *)

\* async_internal_added_to_hass without the call of async_registry_entry_updated.
AddedToHassWithoutHandler ==
    /\ ~added
    /\ added' = TRUE
    /\ last' = "added"
    /\ result' = NoResult
    /\ UNCHANGED << hass_units, registry_entry, weather_option, native_unit,
                    attr_precision, snapshot, attr_forecast >>

\* async_internal_added_to_hass: the handler runs when there is a registry entry.
AddedToHass ==
    /\ ~added
    /\ added' = TRUE
    /\ weather_option' = IF registry_entry.present
                         THEN RegistryEntryUpdated(registry_entry.options)
                         ELSE weather_option
    /\ last' = "added"
    /\ result' = NoResult
    /\ UNCHANGED << hass_units, registry_entry, native_unit, attr_precision,
                    snapshot, attr_forecast >>

\* The registry stores new options for the entity and the host calls
\* async_registry_entry_updated.
RegistryUpdated(options) ==
    /\ added
    /\ registry_entry.present
    /\ registry_entry' = [present |-> TRUE, options |-> options]
    /\ weather_option' = RegistryEntryUpdated(options)
    /\ last' = "registry_updated"
    /\ result' = NoResult
    /\ UNCHANGED << hass_units, native_unit, attr_precision, snapshot,
                    attr_forecast, added >>

\* The data source sets self._attr_native_<kind>_unit.
SetNativeUnit(kind, unit) ==
    /\ native_unit[kind] # unit
    /\ native_unit' = [native_unit EXCEPT ![kind] = unit]
    /\ last' = "native_unit"
    /\ result' = NoResult
    /\ UNCHANGED << hass_units, registry_entry, weather_option, attr_precision,
                    snapshot, attr_forecast, added >>

\* state_attributes updating each entry of self.forecast in place
\* (forecast_entry.update(forecast_entry_new)) instead of building a new one.
ComputeAttributesInPlace ==
    /\ result' = state_attributes
    /\ last' = "state_attributes"
    /\ attr_forecast' = IF state_attributes.exc = "" /\ state_attributes.has_forecast
                         THEN [attr_forecast EXCEPT !.entries = state_attributes.forecast]
                         ELSE attr_forecast
    /\ UNCHANGED << hass_units, registry_entry, weather_option, native_unit,
                    attr_precision, snapshot, added >>

\* The host reads state_attributes.
ComputeAttributes ==
    /\ result' = state_attributes
    /\ last' = "state_attributes"
    /\ UNCHANGED << hass_units, registry_entry, weather_option, native_unit,
                    attr_precision, snapshot, attr_forecast, added >>

-----------------------------------------------------------------------------
(* Spec: the override state machine of one entity. The options change by   *)
(* one key per event, or are delivered again unchanged; the data source    *)
(* declares metric native units and may withdraw and restore each.         *)

OneKeyChanges(options) ==
    { o \in UNION { { [options EXCEPT ![k] = u] :
                          u \in OptionUnits(k) \cup {NoneUnit} } : k \in Kinds } :
          Cardinality(OptionKeys(o)) <= MaxOptions }

Init ==
    /\ hass_units \in HassUnits
    /\ registry_entry \in
           {[present |-> FALSE, options |-> NoOptions]}
           \cup { [present |-> TRUE, options |-> o] : o \in OneKeyChanges(NoOptions) }
    /\ weather_option = NoOptions
    /\ native_unit = MetricUnits
    /\ attr_precision = << >>
    /\ snapshot = [NoReadings EXCEPT !.native_temperature = Num(2026)]
    /\ attr_forecast = NoForecast
    /\ added = FALSE
    /\ last = "init"
    /\ result = NoResult

Next ==
    \/ AddedToHass
    \/ \E o \in OneKeyChanges(registry_entry.options) : RegistryUpdated(o)
    \/ \E k \in Kinds : \E u \in {NoneUnit, MetricUnits[k]} : SetNativeUnit(k, u)

Spec == Init /\ [][Next]_vars

-----------------------------------------------------------------------------
(* The claims on the override state machine.                               *)

\* async_registry_entry_updated has just run: by a RegistryUpdated event, or
\* called by async_internal_added_to_hass for an entity with a registry entry.
HandlerRan ==
    \/ last = "registry_updated"
    \/ last = "added" /\ registry_entry.present

\* The override the options call for: the unit they carry for the kind when it
\* is present, valid for the kind and the native unit is valid for the kind.
Accepted(options, native, kind) ==
    /\ options[kind] # NoneUnit
    /\ options[kind] \in VALID_UNITS(kind)
    /\ native[kind] \in VALID_UNITS(kind)

Resolved(options, native) ==
    [k \in Kinds |-> IF Accepted(options, native, k) THEN options[k] ELSE NoneUnit]

\* The default target unit of a kind: the system's temperature unit, and the
\* metric or imperial unit of the other four kinds.
DefaultUnit(kind) ==
    IF kind = CONF_TEMPERATURE_UOM THEN hass_units.temperature_unit
    ELSE IF hass_units.is_metric THEN MetricUnits[kind] ELSE ImperialUnits[kind]

\* C1: after every run of async_registry_entry_updated, the override of each
\* kind is the unit the options carry for it exactly when that unit is present,
\* valid for the kind and the native unit of the kind is valid too; otherwise
\* the override of the kind is unset, whatever the other kinds hold.
C1_OverridePerKind ==
    HandlerRan =>
        \A k \in Kinds :
            /\ Accepted(registry_entry.options, native_unit, k)
                   => weather_option[k] = registry_entry.options[k]
            /\ ~Accepted(registry_entry.options, native_unit, k)
                   => weather_option[k] = NoneUnit

\* One kind is overridden while another, whose option is present, is unset.
C1_Witness ==
    /\ last = "registry_updated"
    /\ \E k1, k2 \in Kinds :
           /\ weather_option[k1] # NoneUnit
           /\ registry_entry.options[k2] # NoneUnit
           /\ weather_option[k2] = NoneUnit

\* C2: the target unit of each kind is the override when one is set and the
\* default otherwise; when the options last delivered carry a unit that is
\* not valid for the kind, the target unit is the default.
C2_TargetUnit ==
    \A k \in Kinds :
        /\ TargetUnit(k) = IF weather_option[k] # NoneUnit
                           THEN weather_option[k]
                           ELSE DefaultUnit(k)
        /\ ( /\ registry_entry.options[k] # NoneUnit
             /\ registry_entry.options[k] \notin VALID_UNITS(k) )
               => TargetUnit(k) = DefaultUnit(k)

\* The options carry an invalid wind-speed unit and a valid pressure unit: the
\* wind speed falls back to the imperial default, the pressure is overridden.
C2_Witness ==
    /\ last = "registry_updated"
    /\ ~hass_units.is_metric
    /\ registry_entry.options[CONF_WIND_SPEED_UOM] = InvalidUnit(CONF_WIND_SPEED_UOM)
    /\ wind_speed_unit = SPEED_MILES_PER_HOUR
    /\ registry_entry.options[CONF_PRESSURE_UOM] = PRESSURE_MMHG
    /\ pressure_unit = PRESSURE_MMHG

\* C3: a RegistryUpdated event leaves the five overrides a function of the
\* event's options and the native units alone, whatever the overrides were
\* before; the same options delivered twice in a row leave the overrides of
\* the first delivery.
C3_Idempotent ==
    [][ last' = "registry_updated" =>
            /\ weather_option' = Resolved(registry_entry'.options, native_unit')
            /\ ( last = "registry_updated" /\ registry_entry' = registry_entry )
                   => weather_option' = weather_option ]_vars

\* An update has cleared the override of a kind whose option is valid, the
\* data source having withdrawn the native unit.
C3_Witness ==
    /\ last = "registry_updated"
    /\ \E k \in Kinds :
           /\ registry_entry.options[k] \in VALID_UNITS(k)
           /\ native_unit[k] = NoneUnit
           /\ weather_option[k] = NoneUnit
    /\ \E k \in Kinds : weather_option[k] # NoneUnit

\* C4: in every state an override that is honoured (used as the target unit of
\* its kind) is valid for the kind and the native unit of the kind is valid.
C4_HonouredOnlyIfValid ==
    \A k \in Kinds :
        ( weather_option[k] # NoneUnit /\ TargetUnit(k) = weather_option[k] )
            => /\ weather_option[k] \in VALID_UNITS(k)
               /\ native_unit[k] \in VALID_UNITS(k)

-----------------------------------------------------------------------------
(* The specifications of state_attributes: the entity is attached with a   *)
(* registry entry, its overrides resolved from the entry's options at the  *)
(* attach, and the host reads state_attributes.                            *)

\* The longest forecast.
MaxForecast == 2

Without(map, key) == [k \in DOMAIN map \ {key} |-> map[k]]

\* The native units declared: all metric, all imperial, or metric with the
\* unit of one kind not declared.
NativeProfiles ==
    {MetricUnits, ImperialUnits}
    \cup { [MetricUnits EXCEPT ![k] = NoneUnit] : k \in Kinds }

\* Options blobs: none, valid units, and an invalid wind-speed unit.
AttrOptions ==
    { NoOptions,
      [NoOptions EXCEPT ![CONF_TEMPERATURE_UOM] = TEMP_FAHRENHEIT,
                        ![CONF_WIND_SPEED_UOM] = SPEED_KILOMETERS_PER_HOUR],
      [NoOptions EXCEPT ![CONF_PRESSURE_UOM] = PRESSURE_MMHG,
                        ![CONF_VISIBILITY_UOM] = LENGTH_MILES,
                        ![CONF_PRECIPITATION_UOM] = LENGTH_INCHES],
      [NoOptions EXCEPT ![CONF_TEMPERATURE_UOM] = TEMP_CELSIUS,
                        ![CONF_WIND_SPEED_UOM] = InvalidUnit(CONF_WIND_SPEED_UOM)] }

\* A reading: absent, a number, or a string that is no number.
ReadingValues(x) == { NoneVal, Num(x), Str("abc") }

Snapshots ==
    [native_temperature : ReadingValues(2026),
     humidity : ReadingValues(5560),
     ozone : {Num(3100)},
     native_pressure : ReadingValues(2992),
     wind_bearing : {Str("NW")},
     native_wind_speed : ReadingValues(1000),
     native_visibility : ReadingValues(1609)]

BaseEntry ==
    (ATTR_FORECAST_CONDITION :> Str("sunny"))
    @@ (ATTR_FORECAST_TIME :> Str("2022-06-01T12:00:00"))
    @@ (ATTR_FORECAST_PRECIPITATION_PROBABILITY :> Num(3000))
    @@ (ATTR_FORECAST_WIND_BEARING :> Str("NW"))
    @@ (ATTR_FORECAST_TEMP :> Num(2026))
    @@ (ATTR_FORECAST_TEMP_LOW :> Num(1250))
    @@ (ATTR_FORECAST_PRESSURE :> Num(2992))
    @@ (ATTR_FORECAST_WIND_SPEED :> Num(1000))
    @@ (ATTR_FORECAST_PRECIPITATION :> Num(150))

ConvertibleFields ==
    { ATTR_FORECAST_TEMP, ATTR_FORECAST_TEMP_LOW, ATTR_FORECAST_PRESSURE,
      ATTR_FORECAST_WIND_SPEED, ATTR_FORECAST_PRECIPITATION }

\* The kind of each convertible forecast field.
FieldKind(field) ==
    CASE field = ATTR_FORECAST_TEMP -> CONF_TEMPERATURE_UOM
      [] field = ATTR_FORECAST_TEMP_LOW -> CONF_TEMPERATURE_UOM
      [] field = ATTR_FORECAST_PRESSURE -> CONF_PRESSURE_UOM
      [] field = ATTR_FORECAST_WIND_SPEED -> CONF_WIND_SPEED_UOM
      [] field = ATTR_FORECAST_PRECIPITATION -> CONF_PRECIPITATION_UOM

\* The entries: the full entry, and the full entry with one convertible field
\* missing, None, 0 or a string that is no number.
EntryShapes ==
    {BaseEntry}
    \cup { Without(BaseEntry, f) : f \in ConvertibleFields }
    \cup { [BaseEntry EXCEPT ![f] = v] :
               f \in ConvertibleFields, v \in {NoneVal, Num(0), Str("abc")} }

Forecasts ==
    {NoForecast}
    \cup { [present |-> TRUE, entries |-> e] :
               e \in UNION { [1..n -> EntryShapes] : n \in 0..MaxForecast } }

Attached(options) ==
    /\ registry_entry = [present |-> TRUE, options |-> options]
    /\ weather_option = RegistryEntryUpdated(options)
    /\ added = TRUE
    /\ last = "added"
    /\ result = NoResult

\* SpecAttrs: the current conditions, over the snapshots.
InitAttrs ==
    /\ hass_units \in HassUnits
    /\ native_unit \in NativeProfiles
    /\ attr_precision = << >>
    /\ snapshot \in Snapshots
    /\ attr_forecast = [present |-> TRUE, entries |-> << BaseEntry >>]
    /\ \E o \in AttrOptions : Attached(o)

NextAttrs == ComputeAttributes

SpecAttrs == InitAttrs /\ [][NextAttrs]_vars

\* SpecForecast: the forecast, over the forecasts.
InitForecast ==
    /\ hass_units \in { h \in HassUnits :
                            h.is_metric = (h.temperature_unit = TEMP_CELSIUS) }
    /\ native_unit \in { MetricUnits, ImperialUnits,
                         [MetricUnits EXCEPT ![CONF_TEMPERATURE_UOM] = NoneUnit],
                         [MetricUnits EXCEPT ![CONF_PRESSURE_UOM] = NoneUnit] }
    /\ attr_precision = << >>
    /\ snapshot \in { [NoReadings EXCEPT !.native_temperature = Num(2026),
                                         !.humidity = h] :
                          h \in {Num(5560), Str("abc")} }
    /\ attr_forecast \in Forecasts
    /\ \E o \in AttrOptions : Attached(o)

NextForecast == ComputeAttributes

SpecForecast == InitForecast /\ [][NextForecast]_vars

\* SpecPrecision: the rounding of the temperature, as the registry changes the
\* temperature override.
TemperatureOptions ==
    { [NoOptions EXCEPT ![CONF_TEMPERATURE_UOM] = u] :
          u \in OptionUnits(CONF_TEMPERATURE_UOM) \cup {NoneUnit} }

InitPrecision ==
    /\ hass_units \in HassUnits
    /\ native_unit \in { MetricUnits, ImperialUnits }
    /\ attr_precision \in { << >>, PRECISION_WHOLE, PRECISION_TENTHS, PRECISION_HALVES }
    /\ snapshot \in { [NoReadings EXCEPT !.native_temperature = Num(x)] :
                          x \in {2000, 2026, -1774} }
    /\ attr_forecast = [present |-> TRUE,
                        entries |-> << BaseEntry,
                                       [BaseEntry EXCEPT ![ATTR_FORECAST_TEMP] = Num(-45)] >>]
    /\ Attached(NoOptions)

NextPrecision ==
    \/ \E o \in TemperatureOptions : RegistryUpdated(o)
    \/ ComputeAttributes

SpecPrecision == InitPrecision /\ [][NextPrecision]_vars

-----------------------------------------------------------------------------
(* The claims on state_attributes.                                         *)

\* The target unit the claims expect: the override, else the default.
ExpectedTarget(kind) ==
    IF weather_option[kind] # NoneUnit THEN weather_option[kind] ELSE DefaultUnit(kind)

\* The decimal digits of a declared precision.
DeclaredDigits(p) ==
    CASE p = PRECISION_WHOLE -> 0
      [] p = PRECISION_TENTHS -> 1
      [] p = PRECISION_HALVES -> 1

\* The digits the temperature is rounded to: those of the declared precision,
\* else 1 for a Celsius target and 0 for any other.
ExpectedDigits ==
    IF attr_precision # << >> THEN DeclaredDigits(attr_precision)
    ELSE IF ExpectedTarget(CONF_TEMPERATURE_UOM) = TEMP_CELSIUS THEN 1 ELSE 0

\* The value x of the kind, converted from the native to the target unit and
\* rounded to the digits.
ExpectedValue(kind, x, digits) ==
    LET r == Ratio(kind, x, native_unit[kind], ExpectedTarget(kind))
    IN  Num(Round(r.num, r.den, digits))

\* The current-conditions readings that are converted, with their keys.
ConvertedReadings ==
    { [field |-> "native_temperature", kind |-> CONF_TEMPERATURE_UOM,
       key |-> ATTR_WEATHER_TEMPERATURE, unit_key |-> ATTR_WEATHER_TEMPERATURE_UNIT],
      [field |-> "native_pressure", kind |-> CONF_PRESSURE_UOM,
       key |-> ATTR_WEATHER_PRESSURE, unit_key |-> ATTR_WEATHER_PRESSURE_UNIT],
      [field |-> "native_wind_speed", kind |-> CONF_WIND_SPEED_UOM,
       key |-> ATTR_WEATHER_WIND_SPEED, unit_key |-> ATTR_WEATHER_WIND_SPEED_UNIT],
      [field |-> "native_visibility", kind |-> CONF_VISIBILITY_UOM,
       key |-> ATTR_WEATHER_VISIBILITY, unit_key |-> ATTR_WEATHER_VISIBILITY_UNIT] }

\* The readings emitted without a unit, with their keys.
PlainReadings ==
    { [field |-> "humidity", key |-> ATTR_WEATHER_HUMIDITY],
      [field |-> "ozone", key |-> ATTR_WEATHER_OZONE],
      [field |-> "wind_bearing", key |-> ATTR_WEATHER_WIND_BEARING] }

\* C5: no exception escapes state_attributes: every call returns a map.
C5_NoExceptionEscapes ==
    result.called => result.exc = ""

\* C6: a reading that is None or absent is not in the output and is not
\* passed to a conversion: its key and unit key are not in the map, and a
\* convertible forecast field that is missing or None in the native entry is
\* not in the emitted entry; no conversion is called with None.
C6_NoneNeverEmitted ==
    result.called =>
        /\ \A c \in result.calls : c.value # NoneVal
        /\ result.exc = "" =>
               /\ \A r \in ConvertedReadings :
                      snapshot[r.field] = NoneVal
                          => r.key \notin DOMAIN result.data
                             /\ r.unit_key \notin DOMAIN result.data
               /\ \A r \in PlainReadings :
                      snapshot[r.field] = NoneVal => r.key \notin DOMAIN result.data
               /\ \A i \in 1..Len(result.forecast) : \A f \in ConvertibleFields :
                      Get(attr_forecast.entries[i], f) = NoneVal
                          => f \notin DOMAIN result.forecast[i]

\* The digits a forecast field is rounded to.
FieldDigits(field) ==
    IF field = ATTR_FORECAST_TEMP THEN ExpectedDigits ELSE ROUNDING_PRECISION

\* C7: every forecast entry is emitted with the fields of the native entry;
\* a convertible field holding a number, 0 included, holds the value converted
\* from the native to the target unit, the other fields are unchanged.
C7_ForecastConverted ==
    ( result.called /\ result.exc = "" ) =>
        \A i \in 1..Len(result.forecast) :
            /\ DOMAIN result.forecast[i] = DOMAIN attr_forecast.entries[i]
            /\ \A f \in DOMAIN attr_forecast.entries[i] :
                   IF f \in ConvertibleFields
                   THEN ( /\ attr_forecast.entries[i][f].t = "float"
                          /\ native_unit[FieldKind(f)] \in VALID_UNITS(FieldKind(f)) )
                            => result.forecast[i][f]
                               = ExpectedValue(FieldKind(f), attr_forecast.entries[i][f].n,
                                               FieldDigits(f))
                   ELSE result.forecast[i][f] = attr_forecast.entries[i][f]

\* C8: in every map returned, the value key of temperature, pressure, wind
\* speed and visibility is present exactly when its unit key is, and the unit
\* key holds the target unit (the override, else the default) that was passed
\* to the conversion of the reading.
C8_ValueWithUnit ==
    ( result.called /\ result.exc = "" ) =>
        \A r \in ConvertedReadings :
            /\ r.key \in DOMAIN result.data <=> r.unit_key \in DOMAIN result.data
            /\ r.unit_key \in DOMAIN result.data =>
                   /\ result.data[r.unit_key] = Str(ExpectedTarget(r.kind))
                   /\ \E c \in result.calls :
                          /\ c.kind = r.kind
                          /\ c.value = snapshot[r.field]
                          /\ c.to_unit = result.data[r.unit_key].s

\* The temperature is emitted with the overriding unit while the pressure, a
\* number whose native unit is not declared, is emitted with neither key.
C8_Witness ==
    /\ result.called /\ result.exc = ""
    /\ weather_option[CONF_TEMPERATURE_UOM] = TEMP_FAHRENHEIT
    /\ hass_units.temperature_unit = TEMP_CELSIUS
    /\ ATTR_WEATHER_TEMPERATURE \in DOMAIN result.data
    /\ result.data[ATTR_WEATHER_TEMPERATURE_UNIT] = Str(TEMP_FAHRENHEIT)
    /\ snapshot.native_pressure.t = "float"
    /\ ATTR_WEATHER_PRESSURE \notin DOMAIN result.data
    /\ ATTR_WEATHER_PRESSURE_UNIT \notin DOMAIN result.data

\* C9: a string that is no number in one of the converted readings is caught:
\* the call returns what it returns for the same snapshot with that reading
\* absent, and the map holds neither the value key nor the unit key of it.
C9_NonNumericOmitted ==
    result.called =>
        \A r \in ConvertedReadings :
            snapshot[r.field].t = "str" =>
                /\ result.exc = StateAttributesOf([snapshot EXCEPT ![r.field] = NoneVal]).exc
                /\ result.data = StateAttributesOf([snapshot EXCEPT ![r.field] = NoneVal]).data
                /\ result.forecast
                       = StateAttributesOf([snapshot EXCEPT ![r.field] = NoneVal]).forecast
                /\ result.exc = "" =>
                       /\ r.key \notin DOMAIN result.data
                       /\ r.unit_key \notin DOMAIN result.data

\* The wind speed is a string that is no number: the map holds the
\* temperature, the humidity and the forecast, and no wind speed.
C9_Witness ==
    /\ result.called /\ result.exc = ""
    /\ snapshot.native_wind_speed = Str("abc")
    /\ ATTR_WEATHER_TEMPERATURE \in DOMAIN result.data
    /\ ATTR_WEATHER_HUMIDITY \in DOMAIN result.data
    /\ ATTR_WEATHER_WIND_SPEED \notin DOMAIN result.data
    /\ ATTR_WEATHER_WIND_SPEED_UNIT \notin DOMAIN result.data
    /\ result.has_forecast /\ Len(result.forecast) = 1

\* C10: the temperature emitted, and the temperature of every forecast entry,
\* is rounded to the digits of the declared precision when one is declared,
\* else to 1 digit for a Celsius target unit and to 0 digits for any other:
\* 20.0 Celsius with target Fahrenheit is emitted as 68 Fahrenheit.
C10_TemperaturePrecision ==
    ( result.called /\ result.exc = "" ) =>
        /\ result.data[ATTR_WEATHER_TEMPERATURE]
               = ExpectedValue(CONF_TEMPERATURE_UOM, snapshot.native_temperature.n,
                               ExpectedDigits)
        /\ \A i \in 1..Len(result.forecast) :
               result.forecast[i][ATTR_FORECAST_TEMP]
                   = ExpectedValue(CONF_TEMPERATURE_UOM,
                                   attr_forecast.entries[i][ATTR_FORECAST_TEMP].n,
                                   ExpectedDigits)
        /\ ( /\ snapshot.native_temperature = Num(2000)
             /\ native_unit[CONF_TEMPERATURE_UOM] = TEMP_CELSIUS
             /\ ExpectedTarget(CONF_TEMPERATURE_UOM) = TEMP_FAHRENHEIT
             /\ attr_precision = << >> )
               => /\ result.data[ATTR_WEATHER_TEMPERATURE] = Num(6800)
                  /\ result.data[ATTR_WEATHER_TEMPERATURE_UNIT] = Str(TEMP_FAHRENHEIT)

\* A RegistryUpdated event has set the temperature override to Fahrenheit on a
\* Celsius system: 20.26 Celsius, emitted as 20.3 before, is emitted as 68.
C10_Witness ==
    /\ last = "state_attributes" /\ result.exc = ""
    /\ hass_units.temperature_unit = TEMP_CELSIUS
    /\ native_unit[CONF_TEMPERATURE_UOM] = TEMP_CELSIUS
    /\ attr_precision = << >>
    /\ registry_entry.options[CONF_TEMPERATURE_UOM] = TEMP_FAHRENHEIT
    /\ snapshot.native_temperature = Num(2026)
    /\ result.data[ATTR_WEATHER_TEMPERATURE] = Num(6800)
    /\ result.forecast[1][ATTR_FORECAST_TEMP] = Num(6800)

-----------------------------------------------------------------------------
(* SpecReaders: the host attaches the entity, with or without a registry   *)
(* entry, delivers RegistryUpdated events and reads state_attributes, in   *)
(* any order.                                                              *)

ReaderForecasts ==
    { NoForecast,
      [present |-> TRUE, entries |-> << BaseEntry >>],
      [present |-> TRUE,
       entries |-> << BaseEntry, [BaseEntry EXCEPT ![ATTR_FORECAST_TEMP_LOW] = Num(0)] >>],
      [present |-> TRUE,
       entries |-> << BaseEntry, Without(BaseEntry, ATTR_FORECAST_TEMP) >>] }

InitReaders ==
    /\ hass_units \in HassUnits
    /\ registry_entry \in
           {[present |-> FALSE, options |-> NoOptions]}
           \cup { [present |-> TRUE, options |-> o] : o \in AttrOptions }
    /\ weather_option = NoOptions
    /\ native_unit \in { MetricUnits, ImperialUnits,
                         [MetricUnits EXCEPT ![CONF_PRESSURE_UOM] = NoneUnit] }
    /\ attr_precision = << >>
    /\ snapshot \in { [NoReadings EXCEPT !.native_temperature = Num(2026),
                                         !.native_pressure = Num(2992),
                                         !.native_wind_speed = w] :
                          w \in {Num(1000), Str("abc")} }
    /\ attr_forecast \in ReaderForecasts
    /\ added = FALSE
    /\ last = "init"
    /\ result = NoResult

NextReaders ==
    \/ AddedToHass
    \/ \E o \in AttrOptions : RegistryUpdated(o)
    \/ ComputeAttributes

SpecReaders == InitReaders /\ [][NextReaders]_vars

\* C11: a read of state_attributes, at any point among the attach and the
\* RegistryUpdated events, leaves the five stored overrides, the native
\* readings, the native units and the entity's forecast (the list and every
\* entry of it) as they were, whether it returns or raises; and the overrides
\* change only in a step that runs async_registry_entry_updated.
C11_ComputeMutatesNothing ==
    [][ /\ ( last' = "state_attributes" /\ result'.called )
            => /\ weather_option' = weather_option
               /\ snapshot' = snapshot
               /\ native_unit' = native_unit
               /\ attr_forecast' = attr_forecast
               /\ attr_precision' = attr_precision
               /\ registry_entry' = registry_entry
        /\ ( weather_option' # weather_option )
            => ( last' = "registry_updated"
                 \/ ( last' = "added" /\ registry_entry.present ) ) ]_vars

\* A read after an accepted temperature override: the forecast returned differs
\* from the entity's own entries (20.26 Celsius emitted as 68 Fahrenheit), which
\* still hold the native values.
C11_Witness ==
    /\ last = "state_attributes" /\ result.called /\ result.exc = ""
    /\ weather_option[CONF_TEMPERATURE_UOM] = TEMP_FAHRENHEIT
    /\ native_unit[CONF_TEMPERATURE_UOM] = TEMP_CELSIUS
    /\ result.has_forecast /\ Len(result.forecast) = 2
    /\ result.forecast[1][ATTR_FORECAST_TEMP] = Num(6800)
    /\ attr_forecast.entries[1][ATTR_FORECAST_TEMP] = Num(2026)

\* C12: once the entity is added, (a) with no registry entry the handler has
\* not run and the five overrides are unset, and stay so; (b) with a registry
\* entry the attach itself has resolved the overrides from the entry's options;
\* (c) every read of state_attributes after the attach converts to the stored
\* override of the kind, which is a valid unit of it, else to the default.
C12_ResolvedAtAttach ==
    added =>
        /\ ~registry_entry.present => weather_option = NoOptions
        /\ ( last = "added" /\ registry_entry.present )
               => weather_option = Resolved(registry_entry.options, native_unit)
        /\ ( last = "state_attributes" /\ result.called /\ registry_entry.present )
               => /\ weather_option = Resolved(registry_entry.options, native_unit)
                  /\ \A c \in result.calls :
                         /\ c.to_unit = ExpectedTarget(c.kind)
                         /\ weather_option[c.kind] # NoneUnit
                                => c.to_unit \in VALID_UNITS(c.kind)

\* A read after the attach of an entity whose registry entry carries a pressure
\* override: hPa is converted to mmHg, on a metric system.
C12_Witness ==
    /\ added /\ registry_entry.present
    /\ last = "state_attributes" /\ result.called /\ result.exc = ""
    /\ hass_units.is_metric
    /\ native_unit[CONF_PRESSURE_UOM] = PRESSURE_HPA
    /\ weather_option[CONF_PRESSURE_UOM] = PRESSURE_MMHG
    /\ result.data[ATTR_WEATHER_PRESSURE_UNIT] = Str(PRESSURE_MMHG)
    /\ \E c \in result.calls :
           c.kind = CONF_PRESSURE_UOM /\ c.to_unit = PRESSURE_MMHG

====
